---- MODULE Spec2Model ----
(***************************************************************************)
(* Model of pkg/stripe/analytics_telemetry.go: the process-wide telemetry  *)
(* event context (a sync.Once singleton), its mutation by command          *)
(* dispatch, and the SendEvent pipeline (pre-send delay, opt-out gate,     *)
(* form body construction, context binding, one transport execution).      *)
(***************************************************************************)
EXTENDS Integers, Sequences, FiniteSets, TLC

(***************************************************************************)
(* Bounds of the model.                                                    *)
(***************************************************************************)
\* Number of goroutines that call GetAnalyticsEventContext.
NumThreads == 2
\* Number of GetAnalyticsEventContext calls each goroutine makes.
MaxCalls == 2
\* Seconds of wall-clock time that pass after the start instant.
MaxElapsed == 6

(***************************************************************************)
(* Program constants.                                                      *)
(***************************************************************************)
\* time.Sleep(5 * time.Second)
PreSendDelay == 5

Threads == 1..NumThreads

\* The nil pointer: the zero value of telemetryInstance and of a *http.Response.
Nil == 0

\* The nil error.
NoError == "nil"

(***************************************************************************)
(* The CLIAnalyticsEventContext struct.                                    *)
(***************************************************************************)
\* Go field name and `url:"..."` tag of every field, in declaration order.
FieldTags ==
  << <<"UserAgent", "user_agent">>,
     <<"InvocationID", "invocation_id">>,
     <<"CommandPath", "command_path">>,
     <<"Merchant", "merchant">>,
     <<"CLIVersion", "cli_version">>,
     <<"OS", "os">>,
     <<"GeneratedResource", "generated_resource">>,
     <<"RequestID", "request_id">>,
     <<"LiveMode", "livemode">> >>

BoolFields == {"GeneratedResource", "LiveMode"}

\* &CLIAnalyticsEventContext{}: every string empty, every bool false.
ZeroContext ==
  [UserAgent |-> "", InvocationID |-> "", CommandPath |-> "", Merchant |-> "",
   CLIVersion |-> "", OS |-> "", GeneratedResource |-> FALSE,
   RequestID |-> "", LiveMode |-> FALSE]

\* uuid.NewString() draws a fresh random identifier.
UUIDs == {"6ba7b810-9dad-41d1-80b4-00c04fd430c8",
          "f47ac10b-58cc-4372-a567-0e02b2c3d479"}

\* The fields the host framework assigns directly, with the values it uses.
FrameworkValues ==
  [UserAgent |-> {"", "Stripe/v1 stripe-cli/1.7.0"},
   Merchant |-> {"", "acct_1"},
   CLIVersion |-> {"", "1.7.0"},
   OS |-> {"", "linux"},
   RequestID |-> {"", "req_1"},
   LiveMode |-> {FALSE, TRUE}]

FrameworkFields == DOMAIN FrameworkValues

VARIABLES
  telemetryInstance,  \* var telemetryInstance *CLIAnalyticsEventContext
  telemetrySync,      \* var telemetrySync sync.Once: [done, m]
  heap,               \* the allocated CLIAnalyticsEventContext records, by address
  pc,                 \* position of each goroutine inside GetAnalyticsEventContext
  ref,                \* the pointer each goroutine got from its last call
  calls,              \* number of calls each goroutine has started
  env,                \* value of STRIPE_CLI_TELEMETRY_OPTOUT ("" when unset)
  epoch,              \* Unix time of the start instant
  clock,              \* seconds since the start instant
  send,               \* the activation record of SendEvent
  bound               \* history: the last commands given to SetCommandContext

vars ==
  <<telemetryInstance, telemetrySync, heap, pc, ref, calls, env, epoch, clock, send,
    bound>>

onceVars == <<telemetryInstance, telemetrySync, pc, ref, calls>>
sendVars == <<env, epoch, clock, send>>

(***************************************************************************)
(* GetAnalyticsEventContext: telemetrySync.Do(func() { telemetryInstance = *)
(* &CLIAnalyticsEventContext{} }); return telemetryInstance.               *)
(* sync.Once.Do is modelled by its steps: the lock-free load of done, the  *)
(* slow path under the mutex (second load of done, f(), deferred store of  *)
(* done, deferred unlock).                                                 *)
(***************************************************************************)
\* A goroutine enters GetAnalyticsEventContext.
GetCall(t) ==
  /\ pc[t] = "idle"
  /\ calls[t] < MaxCalls
  /\ calls' = [calls EXCEPT ![t] = @ + 1]
  /\ pc' = [pc EXCEPT ![t] = "do"]
  /\ UNCHANGED <<telemetryInstance, telemetrySync, heap, ref, sendVars, bound>>

\* Once.Do: if o.done.Load() == 0 { o.doSlow(f) }
OnceDo(t) ==
  /\ pc[t] = "do"
  /\ pc' = [pc EXCEPT ![t] = IF telemetrySync.done = 0 THEN "lock" ELSE "return"]
  /\ UNCHANGED <<telemetryInstance, telemetrySync, heap, ref, calls, sendVars, bound>>

\* A lock that is granted although another goroutine holds it.
OnceLockNoExclusion(t) ==
  /\ pc[t] = "lock"
  /\ telemetrySync' = [telemetrySync EXCEPT !.m = t]
  /\ pc' = [pc EXCEPT ![t] = "slow"]
  /\ UNCHANGED <<telemetryInstance, heap, ref, calls, sendVars, bound>>

\* doSlow: o.m.Lock()
OnceLock(t) ==
  /\ pc[t] = "lock"
  /\ telemetrySync.m = Nil
  /\ telemetrySync' = [telemetrySync EXCEPT !.m = t]
  /\ pc' = [pc EXCEPT ![t] = "slow"]
  /\ UNCHANGED <<telemetryInstance, heap, ref, calls, sendVars, bound>>

\* doSlow: if o.done.Load() == 0 { defer o.done.Store(1); f() }
OnceSlowCheck(t) ==
  /\ pc[t] = "slow"
  /\ pc' = [pc EXCEPT ![t] = IF telemetrySync.done = 0 THEN "init" ELSE "unlock"]
  /\ UNCHANGED <<telemetryInstance, telemetrySync, heap, ref, calls, sendVars, bound>>

\* f(): telemetryInstance = &CLIAnalyticsEventContext{}
OnceInit(t) ==
  /\ pc[t] = "init"
  /\ heap' = Append(heap, ZeroContext)
  /\ telemetryInstance' = Len(heap) + 1
  /\ pc' = [pc EXCEPT ![t] = "store"]
  /\ UNCHANGED <<telemetrySync, ref, calls, sendVars, bound>>

\* deferred o.done.Store(1)
OnceStoreDone(t) ==
  /\ pc[t] = "store"
  /\ telemetrySync' = [telemetrySync EXCEPT !.done = 1]
  /\ pc' = [pc EXCEPT ![t] = "unlock"]
  /\ UNCHANGED <<telemetryInstance, heap, ref, calls, sendVars, bound>>

\* deferred o.m.Unlock()
OnceUnlock(t) ==
  /\ pc[t] = "unlock"
  /\ telemetrySync' = [telemetrySync EXCEPT !.m = Nil]
  /\ pc' = [pc EXCEPT ![t] = "return"]
  /\ UNCHANGED <<telemetryInstance, heap, ref, calls, sendVars, bound>>

\* return telemetryInstance
GetReturn(t) ==
  /\ pc[t] = "return"
  /\ ref' = [ref EXCEPT ![t] = telemetryInstance]
  /\ pc' = [pc EXCEPT ![t] = "idle"]
  /\ UNCHANGED <<telemetryInstance, telemetrySync, heap, calls, sendVars, bound>>

(***************************************************************************)
(* Field assignments made by the host framework through a pointer it got   *)
(* from GetAnalyticsEventContext (the struct's fields are exported).       *)
(***************************************************************************)
SetField(e, f, v) ==
  /\ e # Nil
  /\ heap[e][f] # v
  /\ heap' = [heap EXCEPT ![e][f] = v]
  /\ UNCHANGED <<onceVars, sendVars, bound>>

\* A goroutine writes a field through the pointer its last call returned.
StoreThroughRef(t) ==
  /\ pc[t] = "idle"
  /\ \E v \in FrameworkValues.Merchant : SetField(ref[t], "Merchant", v)

\* No request built yet.
NoRequest == [method |-> "", url |-> "", body |-> << >>, header |-> << >>, ctx |-> ""]

\* What a step of SendEvent hands back: nothing yet.
NoResult == [resp |-> Nil, err |-> NoError]

\* No SendEvent call in progress.
IdleSend ==
  [pc |-> "idle", e |-> Nil, ctx |-> "nil", canceled |-> FALSE, name |-> "",
   value |-> "", envAtCall |-> "", entered |-> 0, optout |-> FALSE,
   req |-> NoRequest, attempts |-> 0, out |-> NoResult, ret |-> NoResult,
   printed |-> FALSE]

\* Process start: nothing allocated, the Once unused, no call in progress.
Init ==
  /\ telemetryInstance = Nil
  /\ telemetrySync = [done |-> 0, m |-> Nil]
  /\ heap = << >>
  /\ pc = [t \in Threads |-> "idle"]
  /\ ref = [t \in Threads |-> Nil]
  /\ calls = [t \in Threads |-> 0]
  /\ env = ""
  /\ epoch = 0
  /\ clock = 0
  /\ send = IdleSend
  /\ bound = << >>

NextOnce ==
  \E t \in Threads :
    \/ GetCall(t)
    \/ OnceDo(t)
    \/ OnceLock(t)
    \/ OnceSlowCheck(t)
    \/ OnceInit(t)
    \/ OnceStoreDone(t)
    \/ OnceUnlock(t)
    \/ GetReturn(t)
    \/ StoreThroughRef(t)

\* The accessor called from NumThreads goroutines.
SpecOnce == Init /\ [][NextOnce]_vars

(***************************************************************************)
(* C1: for any number of callers of GetAnalyticsEventContext and any       *)
(* interleaving of their calls, the record is allocated at most once and   *)
(* every call returns the same instance: every pointer a call returned is  *)
(* the one telemetryInstance holds, so any two of them address the same    *)
(* record and a field written through one is read through the other; no   *)
(* later call allocates a replacement.                                     *)
(***************************************************************************)
C1_SingleInstance ==
  /\ Len(heap) <= 1
  /\ \A t \in Threads : ref[t] # Nil => ref[t] = telemetryInstance
  /\ \A t, u \in Threads :
       (ref[t] # Nil /\ ref[u] # Nil) =>
         /\ ref[t] = ref[u]
         /\ heap[ref[t]].Merchant = heap[ref[u]].Merchant

\* Every goroutine has made all its calls, a first call went through the
\* slow path, and a field was written through a returned pointer.
C1_Witness ==
  /\ \A t \in Threads : calls[t] = MaxCalls /\ pc[t] = "idle" /\ ref[t] # Nil
  /\ telemetrySync.done = 1
  /\ heap[ref[1]].Merchant = "acct_1"

(***************************************************************************)
(* The command descriptors the host framework passes to SetCommandContext: *)
(* the result of cmd.CommandPath() and the cmd.Annotations map.            *)
(***************************************************************************)
AnnotationKeys == {"operation", "scope"}
AnnotationValues == {"operation", "namespace"}

\* Every map[string]string over the keys and values above, the empty map too.
AnnotationMaps ==
  UNION {[ks -> AnnotationValues] : ks \in SUBSET AnnotationKeys}

CommandPaths == {"stripe listen", "stripe charges create"}

Commands == [path : CommandPaths, annotations : AnnotationMaps]

\* for _, value := range cmd.Annotations { if value == "operation" { flag = true } }
RECURSIVE ScanAnnotations(_, _, _)
ScanAnnotations(ann, keys, flag) ==
  IF keys = {} THEN flag
  ELSE LET k == CHOOSE x \in keys : TRUE
       IN ScanAnnotations(ann, keys \ {k},
                          IF ann[k] = "operation" THEN TRUE ELSE flag)

\* A bind that rebuilds the record from scratch.
BindCommandFresh(rec, cmd) ==
  [ZeroContext EXCEPT
     !.CommandPath = cmd.path,
     !.GeneratedResource =
        ScanAnnotations(cmd.annotations, DOMAIN cmd.annotations, FALSE)]

\* A bind that leaves out e.GeneratedResource = false.
BindCommandNoClear(rec, cmd) ==
  [rec EXCEPT
     !.CommandPath = cmd.path,
     !.GeneratedResource =
        ScanAnnotations(cmd.annotations, DOMAIN cmd.annotations,
                        rec.GeneratedResource)]

\* The record after the body of SetCommandContext.
BindCommand(rec, cmd) ==
  [rec EXCEPT
     !.CommandPath = cmd.path,
     !.GeneratedResource =
        ScanAnnotations(cmd.annotations, DOMAIN cmd.annotations, FALSE)]

\* The last two elements of a history.
LastTwo(h) == IF Len(h) <= 2 THEN h ELSE SubSeq(h, Len(h) - 1, Len(h))

SetCommandContext(e, cmd) ==
  /\ e # Nil
  /\ heap' = [heap EXCEPT ![e] = BindCommand(heap[e], cmd)]
  /\ bound' = LastTwo(Append(bound, cmd))
  /\ UNCHANGED <<onceVars, sendVars>>

\* e.InvocationID = uuid.NewString()
SetInvocationID(e) ==
  /\ e # Nil
  /\ \E id \in UUIDs : heap' = [heap EXCEPT ![e].InvocationID = id]
  /\ UNCHANGED <<onceVars, sendVars, bound>>

\* The pointers the goroutines hold.
Refs == {ref[t] : t \in Threads} \ {Nil}

\* The state once the host framework has obtained the singleton.
InitObtained ==
  /\ telemetryInstance = 1
  /\ telemetrySync = [done |-> 1, m |-> Nil]
  /\ heap = <<ZeroContext>>
  /\ pc = [t \in Threads |-> "idle"]
  /\ ref = [t \in Threads |-> 1]
  /\ calls = [t \in Threads |-> 1]
  /\ env = ""
  /\ epoch = 0
  /\ clock = 0
  /\ send = IdleSend
  /\ bound = << >>

NextBind ==
  \E e \in Refs :
    \/ \E cmd \in Commands : SetCommandContext(e, cmd)
    \/ SetInvocationID(e)
    \/ \E f \in FrameworkFields : \E v \in FrameworkValues[f] : SetField(e, f, v)

\* Command dispatch mutating the obtained singleton.
SpecBind == InitObtained /\ [][NextBind]_vars

\* Whether some value of the annotation map is the marker.
HasOperationValue(cmd) ==
  \E k \in DOMAIN cmd.annotations : cmd.annotations[k] = "operation"

(***************************************************************************)
(* C5: after SetCommandContext(cmd), GeneratedResource is true iff some    *)
(* value of cmd's annotation map equals "operation" (keys do not count)    *)
(* and CommandPath is cmd's path, whatever the two fields held before: the *)
(* fields always reflect the last bound command.                           *)
(***************************************************************************)
C5_BindReflectsLastCommand ==
  bound # << >> =>
    \A e \in Refs :
      /\ heap[e].GeneratedResource = HasOperationValue(bound[Len(bound)])
      /\ heap[e].CommandPath = bound[Len(bound)].path

\* A bind with the marker as a value was followed by a bind that has the
\* marker only as a key, and the flag is false.
C5_Witness ==
  /\ Len(bound) = 2
  /\ HasOperationValue(bound[1])
  /\ ~HasOperationValue(bound[2])
  /\ "operation" \in DOMAIN bound[2].annotations
  /\ bound[1].path # bound[2].path
  /\ heap[1].GeneratedResource = FALSE
  /\ heap[1].CommandPath = bound[2].path

\* The fields SetCommandContext must leave alone.
FrameFields ==
  {"UserAgent", "InvocationID", "Merchant", "CLIVersion", "OS", "RequestID",
   "LiveMode"}

(***************************************************************************)
(* C8: SetCommandContext changes only CommandPath and GeneratedResource:   *)
(* UserAgent, InvocationID, Merchant, CLIVersion, OS, RequestID and        *)
(* LiveMode hold the same values after the call as before it, and no       *)
(* record is allocated or dropped.                                         *)
(***************************************************************************)
\* A step of SetCommandContext(e, cmd) leaves cmd as the last element of the
\* history, so the steps of SetCommandContext are those of BindStep.
BindStep(e) ==
  /\ bound' # << >>
  /\ SetCommandContext(e, bound'[Len(bound')])

C8_BindFrame ==
  [][\A e \in Refs :
       BindStep(e) =>
         /\ Len(heap') = Len(heap)
         /\ \A f \in FrameFields : heap'[e][f] = heap[e][f]]_vars

\* A command is bound and every other field holds a non-zero value.
C8_Witness ==
  /\ bound # << >>
  /\ heap[1].CommandPath = bound[Len(bound)].path
  /\ heap[1].InvocationID \in UUIDs
  /\ heap[1].LiveMode
  /\ \A f \in {"UserAgent", "Merchant", "CLIVersion", "OS", "RequestID"} :
       heap[1][f] # ""

(***************************************************************************)
(* SendEvent: helpers.                                                     *)
(***************************************************************************)
\* The values STRIPE_CLI_TELEMETRY_OPTOUT takes ("" when unset).
EnvValues == {"", "0", "1", "true"}

\* telemetryOptedOut(os.Getenv("STRIPE_CLI_TELEMETRY_OPTOUT"))
telemetryOptedOut(optoutVar) == optoutVar \in {"1", "true"}

\* url.Parse("https://r.stripe.com/0")
AnalyticsURL == "https://r.stripe.com/0"

\* url.Parse: the raw URLs it accepts; anything else is a parse error.
ParseURL(raw) ==
  IF raw \in {"https://r.stripe.com/0"}
  THEN [url |-> raw, err |-> NoError]
  ELSE [url |-> "", err |-> "parse " \o raw \o ": invalid URL"]

\* strconv.FormatBool, which go-querystring applies to a bool field.
FormatBool(b) == IF b THEN "true" ELSE "false"

\* The string go-querystring encodes a field as.
FieldString(f, v) == IF f \in BoolFields THEN FormatBool(v) ELSE v

\* A url.Values (map[string][]string) is kept as the sequence of its
\* (key, value) entries: the list of a key is its entries, in order.
\* url.Values.Add: append to the key's list.
ValuesAdd(vals, k, v) == Append(vals, [key |-> k, value |-> v])

\* url.Values.Set: replace the key's list.
ValuesSet(vals, k, v) ==
  Append(SelectSeq(vals, LAMBDA p : p.key # k), [key |-> k, value |-> v])

\* An encoder that files every field under its Go name.
RECURSIVE QueryValuesFromByName(_, _)
QueryValuesFromByName(rec, i) ==
  IF i = 0 THEN << >>
  ELSE ValuesAdd(QueryValuesFromByName(rec, i - 1), FieldTags[i][1],
                 FieldString(FieldTags[i][1], rec[FieldTags[i][1]]))

\* query.Values(e): every field, in declaration order, under its url tag.
RECURSIVE QueryValuesFrom(_, _)
QueryValuesFrom(rec, i) ==
  IF i = 0 THEN << >>
  ELSE ValuesAdd(QueryValuesFrom(rec, i - 1), FieldTags[i][2],
                 FieldString(FieldTags[i][1], rec[FieldTags[i][1]]))

QueryValues(rec) == QueryValuesFrom(rec, Len(FieldTags))

DecimalDigits == <<"0", "1", "2", "3", "4", "5", "6", "7", "8", "9">>

\* fmt.Sprint of a non-negative int64: its decimal digits.
RECURSIVE Sprint(_)
Sprint(n) ==
  IF n < 10 THEN DecimalDigits[n + 1]
  ELSE Sprint(n \div 10) \o DecimalDigits[(n % 10) + 1]

\* url.QueryEscape on the strings of the model: ' ' becomes '+', '/' "%2F".
QueryEscape(str) ==
  CASE str = "stripe listen" -> "stripe+listen"
    [] str = "stripe charges create" -> "stripe+charges+create"
    [] str = "Stripe/v1 stripe-cli/1.7.0" -> "Stripe%2Fv1+stripe-cli%2F1.7.0"
    [] OTHER -> str

\* Every key a form of the model can hold, in the byte order sort.Strings
\* gives them (upper case before lower case).
SortedKeys ==
  <<"CLIVersion", "CommandPath", "GeneratedResource", "InvocationID", "LiveMode",
    "Merchant", "OS", "RequestID", "UserAgent",
    "cli_version", "client_id", "command_path", "created", "event_id",
    "event_name", "event_value", "generated_resource", "invocation_id",
    "livemode", "merchant", "os", "request_id", "user_agent">>

\* One entry as the pair "key=value", both escaped.
EscapePair(p) == [key |-> QueryEscape(p.key), value |-> QueryEscape(p.value)]

\* The escaped pairs of a sequence of entries.
RECURSIVE EscapePairs(_, _)
EscapePairs(list, i) ==
  IF i > Len(list) THEN << >>
  ELSE <<EscapePair(list[i])>> \o EscapePairs(list, i + 1)

\* url.Values.Encode: the pairs "key=value", sorted by key, values escaped.
RECURSIVE EncodeFrom(_, _)
EncodeFrom(vals, i) ==
  IF i > Len(SortedKeys) THEN << >>
  ELSE EscapePairs(SelectSeq(vals, LAMBDA p : p.key = SortedKeys[i]), 1)
         \o EncodeFrom(vals, i + 1)

Encode(vals) == EncodeFrom(vals, 1)

\* The form data: the context's fields, then the five fixed keys.
FormData(rec, eventID, eventName, eventValue, now) ==
  ValuesSet(ValuesSet(ValuesSet(ValuesSet(ValuesSet(QueryValues(rec),
    "client_id", "stripe-cli"),
    "event_id", eventID),
    "event_name", eventName),
    "event_value", eventValue),
    "created", Sprint(now))

\* http.NewRequest: fails on a method that is no token; binds context.Background().
NewRequest(method, url, body) ==
  IF method \in {"GET", "HEAD", "POST", "PUT", "PATCH", "DELETE"}
  THEN [req |-> [method |-> method, url |-> url, body |-> body,
                 header |-> << >>, ctx |-> "background"],
        err |-> NoError]
  ELSE [req |-> NoRequest, err |-> "net/http: invalid method"]

\* textproto.CanonicalMIMEHeaderKey on the header names of the model.
CanonicalHeaderKey(k) ==
  CASE k = "origin" -> "Origin"
    [] OTHER -> k

\* req.Header.Set
HeaderSet(req, k, v) ==
  [req EXCEPT !.header = ValuesSet(req.header, CanonicalHeaderKey(k), v)]

\* A request that keeps context.Background() whatever the caller supplied.
BindContextNever(req, ctx) == req

\* if ctx != nil { req = req.WithContext(ctx) }
BindContext(req, ctx) ==
  IF ctx # "nil" THEN [req EXCEPT !.ctx = "caller"] ELSE req

\* return nil, err
ErrReturn(err) == [resp |-> Nil, err |-> err]

\* ctx.Err() of a canceled context, as client.Do reports it.
Canceled == "context canceled"

\* What one round trip that is not canceled ends in: a response of any
\* status, a network error, or a redirect policy failure (the one case in
\* which client.Do gives a response together with an error).
RoundTripOutcomes ==
  {[resp |-> 200, err |-> NoError],
   [resp |-> 500, err |-> NoError],
   [resp |-> Nil, err |-> "dial tcp: i/o timeout"],
   [resp |-> 302, err |-> "stopped after 10 redirects"]}

\* http.Transport.RoundTrip: a request whose context is canceled fails at
\* once; a request bound to the caller's context may also be canceled in
\* flight.
TransportRoundTrip(req, canceled) ==
  IF req.ctx = "caller" /\ canceled
  THEN {[resp |-> Nil, err |-> Canceled]}
  ELSE RoundTripOutcomes
         \cup (IF req.ctx = "caller" THEN {[resp |-> Nil, err |-> Canceled]}
               ELSE {})

\* verboseTransport.RoundTrip with Verbose false: a transparent pass-through
\* to the wrapped transport.
verboseTransportRoundTrip(req, canceled) == TransportRoundTrip(req, canceled)

\* client.Do(req) on the client newTelemetryHTTPClient(false) builds.
ClientDo(req, canceled) == verboseTransportRoundTrip(req, canceled)

\* A tail that hands back whatever client.Do gave.
DoReturnRaw(out) == [ret |-> out, printed |-> out.err = NoError]

\* A tail that confirms only a 200.
DoReturnPrintsOnOK(out) ==
  IF out.err # NoError
  THEN [ret |-> ErrReturn(out.err), printed |-> FALSE]
  ELSE [ret |-> [resp |-> out.resp, err |-> NoError], printed |-> out.resp = 200]

\* if err != nil { return nil, err }; fmt.Printf("Sent telemetry event");
\* return resp, nil
DoReturn(out) ==
  IF out.err # NoError
  THEN [ret |-> ErrReturn(out.err), printed |-> FALSE]
  ELSE [ret |-> [resp |-> out.resp, err |-> NoError], printed |-> TRUE]

(***************************************************************************)
(* SendEvent: the steps of one call.                                       *)
(***************************************************************************)
\* time.Now().Unix()
Now == epoch + clock

\* The event name/value pairs callers send.
Events == {<<"purchase", "42">>, <<"command_run", "">>}

\* The cancellation contexts callers supply: nil, live, already canceled.
CallerContexts ==
  {[ctx |-> "nil", canceled |-> FALSE],
   [ctx |-> "live", canceled |-> FALSE],
   [ctx |-> "canceled", canceled |-> TRUE]}

\* Entry into SendEvent; time.Sleep(5 * time.Second) begins.
SendCall(e, cc, ev) ==
  /\ e # Nil
  /\ send.pc \in {"idle", "done"}
  /\ clock + PreSendDelay <= MaxElapsed
  /\ send' = [IdleSend EXCEPT
                !.pc = "sleep", !.e = e, !.ctx = cc.ctx,
                !.canceled = cc.canceled, !.name = ev[1], !.value = ev[2],
                !.envAtCall = env, !.entered = clock]
  /\ UNCHANGED <<onceVars, heap, env, epoch, clock, bound>>

\* A sleep that a canceled context cuts short.
SendWakeHonorsCancel ==
  /\ send.pc = "sleep"
  /\ \/ clock >= send.entered + PreSendDelay
     \/ send.ctx # "nil" /\ send.canceled
  /\ send' = [send EXCEPT !.pc = "gate"]
  /\ UNCHANGED <<onceVars, heap, env, epoch, clock, bound>>

\* time.Sleep returns once at least the delay has passed.
SendWake ==
  /\ send.pc = "sleep"
  /\ clock >= send.entered + PreSendDelay
  /\ send' = [send EXCEPT !.pc = "gate"]
  /\ UNCHANGED <<onceVars, heap, env, epoch, clock, bound>>

\* A gate that reads the variable and sends all the same.
SendGateIgnored ==
  /\ send.pc = "gate"
  /\ send' = [send EXCEPT !.optout = telemetryOptedOut(env), !.pc = "build"]
  /\ UNCHANGED <<onceVars, heap, env, epoch, clock, bound>>

\* client := newTelemetryHTTPClient(false);
\* if telemetryOptedOut(os.Getenv(...)) { return nil, nil }
SendGate ==
  /\ send.pc = "gate"
  /\ send' = IF telemetryOptedOut(env)
             THEN [send EXCEPT !.optout = TRUE, !.ret = NoResult, !.pc = "done"]
             ELSE [send EXCEPT !.optout = FALSE, !.pc = "build"]
  /\ UNCHANGED <<onceVars, heap, env, epoch, clock, bound>>

\* url.Parse, query.Values, the five data.Set, http.NewRequest, the two
\* headers and the context binding.
SendBuild ==
  /\ send.pc = "build"
  /\ LET u == ParseURL(AnalyticsURL)
     IN IF u.err # NoError
        THEN send' = [send EXCEPT !.ret = ErrReturn(u.err), !.pc = "done"]
        ELSE \E id \in UUIDs :
               LET data == FormData(heap[send.e], id, send.name, send.value, Now)
                   nr == NewRequest("POST", u.url, Encode(data))
               IN IF nr.err # NoError
                  THEN send' = [send EXCEPT !.ret = ErrReturn(nr.err),
                                            !.pc = "done"]
                  ELSE send' =
                         [send EXCEPT
                            !.req = BindContext(
                                      HeaderSet(
                                        HeaderSet(nr.req, "origin", "stripe-cli"),
                                        "Content-Type",
                                        "application/x-www-form-urlencoded"),
                                      send.ctx),
                            !.pc = "do"]
  /\ UNCHANGED <<onceVars, heap, env, epoch, clock, bound>>

\* A send that tries again after a failure.
SendDoRetry ==
  /\ send.pc = "do"
  /\ \E out \in ClientDo(send.req, send.canceled) :
       send' = [send EXCEPT
                  !.attempts = @ + 1,
                  !.out = out,
                  !.canceled = @ \/ (out.err = Canceled),
                  !.ret = DoReturn(out).ret,
                  !.printed = DoReturn(out).printed,
                  !.pc = IF out.err # NoError /\ send.attempts < 2
                         THEN "do" ELSE "done"]
  /\ UNCHANGED <<onceVars, heap, env, epoch, clock, bound>>

\* resp, err := client.Do(req) and the tail of SendEvent.
SendDo ==
  /\ send.pc = "do"
  /\ \E out \in ClientDo(send.req, send.canceled) :
       send' = [send EXCEPT
                  !.attempts = @ + 1,
                  !.out = out,
                  !.canceled = @ \/ (out.err = Canceled),
                  !.ret = DoReturn(out).ret,
                  !.printed = DoReturn(out).printed,
                  !.pc = "done"]
  /\ UNCHANGED <<onceVars, heap, env, epoch, clock, bound>>

\* The caller cancels the context it supplied while the call is running.
CancelContext ==
  /\ send.pc \in {"sleep", "gate", "build", "do"}
  /\ send.ctx # "nil"
  /\ ~send.canceled
  /\ send' = [send EXCEPT !.canceled = TRUE]
  /\ UNCHANGED <<onceVars, heap, env, epoch, clock, bound>>

\* A second passes.
Tick ==
  /\ clock < MaxElapsed
  /\ clock' = clock + 1
  /\ UNCHANGED <<onceVars, heap, env, epoch, send, bound>>

\* The environment is changed between two calls.
SetEnv(v) ==
  /\ send.pc \in {"idle", "done"}
  /\ v # env
  /\ env' = v
  /\ UNCHANGED <<onceVars, heap, epoch, clock, send, bound>>

\* The Unix times at which the process starts.
StartTimes == {8, 97}

\* Contexts as command dispatch leaves them: untouched, filled, partly filled.
SendContexts ==
  {ZeroContext,
   [UserAgent |-> "Stripe/v1 stripe-cli/1.7.0",
    InvocationID |-> "6ba7b810-9dad-41d1-80b4-00c04fd430c8",
    CommandPath |-> "stripe charges create", Merchant |-> "acct_1",
    CLIVersion |-> "1.7.0", OS |-> "linux", GeneratedResource |-> TRUE,
    RequestID |-> "req_1", LiveMode |-> FALSE],
   [UserAgent |-> "Stripe/v1 stripe-cli/1.7.0",
    InvocationID |-> "f47ac10b-58cc-4372-a567-0e02b2c3d479",
    CommandPath |-> "stripe listen", Merchant |-> "",
    CLIVersion |-> "1.7.0", OS |-> "linux", GeneratedResource |-> FALSE,
    RequestID |-> "", LiveMode |-> TRUE]}

\* The singleton obtained and filled by command dispatch, no call running.
InitSend ==
  /\ telemetryInstance = 1
  /\ telemetrySync = [done |-> 1, m |-> Nil]
  /\ heap \in {<<c>> : c \in SendContexts}
  /\ pc = [t \in Threads |-> "idle"]
  /\ ref = [t \in Threads |-> 1]
  /\ calls = [t \in Threads |-> 1]
  /\ env \in EnvValues
  /\ epoch \in StartTimes
  /\ clock = 0
  /\ send = IdleSend
  /\ bound = << >>

NextSend ==
  \/ \E e \in Refs : \E cc \in CallerContexts : \E ev \in Events : SendCall(e, cc, ev)
  \/ SendWake
  \/ SendGate
  \/ SendBuild
  \/ SendDo
  \/ CancelContext
  \/ Tick
  \/ \E v \in EnvValues : SetEnv(v)

\* Calls of SendEvent on the obtained singleton.
SpecSend == InitSend /\ [][NextSend]_vars

\* The same, with the scheduling the runtime guarantees: time passes, a
\* sleeping goroutine is woken, a runnable goroutine runs its local steps,
\* and a round trip whose context is canceled returns.
FairSpecSend ==
  /\ SpecSend
  /\ WF_vars(Tick)
  /\ WF_vars(SendWake)
  /\ WF_vars(SendGate)
  /\ WF_vars(SendBuild)
  /\ WF_vars(SendDo /\ send.req.ctx = "caller" /\ send.canceled)

(***************************************************************************)
(* Reading a request body back.                                            *)
(***************************************************************************)
\* url.QueryUnescape on the strings of the model.
QueryUnescape(str) ==
  CASE str = "stripe+listen" -> "stripe listen"
    [] str = "stripe+charges+create" -> "stripe charges create"
    [] str = "Stripe%2Fv1+stripe-cli%2F1.7.0" -> "Stripe/v1 stripe-cli/1.7.0"
    [] OTHER -> str

\* The values the body holds under a key, in order (url.ParseQuery).
RECURSIVE FormValuesFrom(_, _, _)
FormValuesFrom(body, k, i) ==
  IF i > Len(body) THEN << >>
  ELSE (IF QueryUnescape(body[i].key) = k
        THEN <<QueryUnescape(body[i].value)>> ELSE << >>)
         \o FormValuesFrom(body, k, i + 1)

FormValues(body, k) == FormValuesFrom(body, k, 1)

\* The strings of one to three decimal digits.
NumericStrings ==
  LET D == {DecimalDigits[i] : i \in 1..10}
  IN D \cup {a \o b : a, b \in D} \cup {a \o b \o c : a, b, c \in D}

\* The call returned.
Returned == send.pc = "done"

(***************************************************************************)
(* C2: whenever STRIPE_CLI_TELEMETRY_OPTOUT holds a recognized truthy      *)
(* value at the time of the call, SendEvent builds no request, attempts no *)
(* HTTP call and returns no response and no error, for every event and     *)
(* every context state.                                                    *)
(***************************************************************************)
C2_OptOutSendsNothing ==
  (send.pc # "idle" /\ telemetryOptedOut(send.envAtCall)) =>
    /\ send.attempts = 0
    /\ send.req = NoRequest
    /\ send.pc \in {"sleep", "gate", "done"}
    /\ Returned => (send.ret.resp = Nil /\ send.ret.err = NoError)

\* An opted-out call on a filled context has returned.
C2_Witness ==
  /\ Returned
  /\ send.envAtCall = "true"
  /\ send.optout
  /\ heap[send.e].Merchant = "acct_1"
  /\ send.name = "purchase"
  /\ send.attempts = 0

C4_ReturnShapes ==
  /\ ~(send.ret.resp # Nil /\ send.ret.err # NoError)
  /\ Returned =>
       IF send.optout
       THEN send.ret.resp = Nil /\ send.ret.err = NoError
       ELSE IF send.out.err # NoError
       THEN send.ret.resp = Nil /\ send.ret.err = send.out.err
       ELSE /\ send.attempts = 1
            /\ send.ret.resp = send.out.resp
            /\ send.ret.resp # Nil
            /\ send.ret.err = NoError

\* client.Do gave a response together with an error, and the call returned.
C4_Witness ==
  /\ Returned
  /\ send.out.resp # Nil
  /\ send.out.err # NoError
  /\ send.ret.resp = Nil

(***************************************************************************)
(* C6: the body of the request handed to the transport holds every field   *)
(* of the context under its declared key with the value the context holds, *)
(* plus event_name, event_value, client_id=stripe-cli, a non-empty         *)
(* event_id and a numeric created; each key holds exactly one value, so no *)
(* fixed key is overwritten by a context field or the other way round.     *)
(***************************************************************************)
C6_BodyHoldsContextAndEvent ==
  send.req # NoRequest =>
    LET body == send.req.body
        rec == heap[send.e]
    IN /\ FormValues(body, "user_agent") = <<rec.UserAgent>>
       /\ FormValues(body, "invocation_id") = <<rec.InvocationID>>
       /\ FormValues(body, "command_path") = <<rec.CommandPath>>
       /\ FormValues(body, "merchant") = <<rec.Merchant>>
       /\ FormValues(body, "cli_version") = <<rec.CLIVersion>>
       /\ FormValues(body, "os") = <<rec.OS>>
       /\ FormValues(body, "request_id") = <<rec.RequestID>>
       /\ FormValues(body, "generated_resource")
            = <<IF rec.GeneratedResource THEN "true" ELSE "false">>
       /\ FormValues(body, "livemode")
            = <<IF rec.LiveMode THEN "true" ELSE "false">>
       /\ FormValues(body, "event_name") = <<send.name>>
       /\ FormValues(body, "event_value") = <<send.value>>
       /\ FormValues(body, "client_id") = <<"stripe-cli">>
       /\ Len(FormValues(body, "event_id")) = 1
       /\ FormValues(body, "event_id")[1] # ""
       /\ Len(FormValues(body, "created")) = 1
       /\ FormValues(body, "created")[1] \in NumericStrings
       /\ Len(body) = Len(FieldTags) + 5

\* SendEvent("purchase", "42") on a filled context has built its request,
\* at a time of three digits.
C6_Witness ==
  /\ send.pc = "do"
  /\ send.name = "purchase"
  /\ send.value = "42"
  /\ heap[send.e].GeneratedResource
  /\ FormValues(send.req.body, "command_path") = <<"stripe charges create">>
  /\ FormValues(send.req.body, "created") = <<"102">>

(***************************************************************************)
(* C7: a call that is not opted out and was given an already canceled      *)
(* context returns, with a nil response and the cancellation error; the    *)
(* request is bound to the caller's context exactly when one was supplied, *)
(* and with a nil context the request is still executed.                   *)
(***************************************************************************)
C7_CanceledContext ==
  /\ [](Returned /\ ~send.optout /\ send.ctx = "canceled" =>
          send.ret = [resp |-> Nil, err |-> Canceled])
  /\ [](send.req # NoRequest =>
          (send.req.ctx = "caller" <=> send.ctx # "nil"))
  /\ [](Returned /\ ~send.optout /\ send.ctx = "nil" => send.attempts = 1)
  /\ ((send.pc = "sleep" /\ send.ctx = "canceled" /\ ~telemetryOptedOut(env))
        ~> (Returned /\ send.ctx = "canceled"
              /\ send.ret = [resp |-> Nil, err |-> Canceled]))

\* A call given an already canceled context returned the cancellation error.
C7_Witness ==
  /\ Returned
  /\ send.ctx = "canceled"
  /\ send.attempts = 1
  /\ send.ret = [resp |-> Nil, err |-> Canceled]

(***************************************************************************)
(* C9 as stated: the confirmation message is printed on every call that is *)
(* not opted out, whatever the outcome of the send, and never on the       *)
(* opt-out path.                                                           *)
(***************************************************************************)
C9_PrintedOnEverySend ==
  Returned => (send.printed <=> ~send.optout)

(***************************************************************************)
(* C9 amended: the confirmation message is printed exactly on the calls    *)
(* that are not opted out and whose client.Do returned a response without  *)
(* an error, whatever the response's status; it is printed neither on the  *)
(* opt-out path nor when the send failed.                                  *)
(***************************************************************************)
C9_PrintedOnResponse ==
  /\ ~Returned => ~send.printed
  /\ Returned =>
       (send.printed <=>
          (~send.optout /\ send.attempts = 1 /\ send.out.err = NoError))

\* The message was printed for a response of status 500.
C9_Witness ==
  /\ Returned
  /\ send.printed
  /\ send.ret.resp = 500

(***************************************************************************)
(* C10: on every call the pre-send delay elapses before the opt-out check  *)
(* and before any request is built or sent: while the delay runs nothing   *)
(* is decided, built, sent or returned, and every later step happens at    *)
(* least PreSendDelay seconds after entry, for opted-out calls and for     *)
(* calls given a canceled context too.                                     *)
(***************************************************************************)
C10_DelayFirst ==
  /\ send.pc \in {"gate", "build", "do", "done"} =>
       clock >= send.entered + PreSendDelay
  /\ send.pc = "sleep" =>
       /\ send.attempts = 0
       /\ send.req = NoRequest
       /\ send.ret = NoResult
       /\ ~send.optout
       /\ ~send.printed

\* An opted-out call given a canceled context returned right after the delay.
C10_Witness ==
  /\ Returned
  /\ send.optout
  /\ send.ctx = "canceled"
  /\ clock = send.entered + PreSendDelay

====
